---- MODULE Spec2Model ----
(***************************************************************************)
(* The bullwhip simulator of src/app.py as a state machine: one run of the *)
(* script, from demand generation over the setup and the period/stage      *)
(* loop to the metrics and the dashboard.                                  *)
(*                                                                         *)
(* Quantities are the script's float64 values kept in fixed point: an      *)
(* integer n stands for n / Scale, and a product or quotient is rounded    *)
(* down to that resolution.  The variances of the metrics are exact        *)
(* (multi-precision naturals), so "variance = 0" means what it says.       *)
(***************************************************************************)
EXTENDS Integers, Sequences, FiniteSets

-----------------------------------------------------------------------------
(* Bounds of the model *)

\* periods simulated (T = 400 in the script)
MaxT == 5

\* warm-up periods left out of the metrics (burn_in = 100 in the script)
MaxBurnIn == 1

-----------------------------------------------------------------------------
(* Program constants *)

Scale == 100

T == MaxT

burn_in == MaxBurnIn

mean_demand == 100

std_demand == 30

stages == 4

\* TARGET = 1.5 as TARGET_NUM / TARGET_DEN
TARGET_NUM == 3

TARGET_DEN == 2

\* SERVICE_TARGET = 0.95 as SERVICE_TARGET_PCT / 100
SERVICE_TARGET_PCT == 95

\* the lead-time slider starts at 2
MinLeadTime == 2

Periods == 0 .. (T - 1)

Stages == 0 .. (stages - 1)

\* fixed point: the integer standing for the whole number n
Fix(n) == n * Scale

\* a rational p = <<num, den>> times the fixed-point value x
Times(p, x) == (p[1] * x) \div p[2]

Max(a, b) == IF a >= b THEN a ELSE b

\* np.sqrt of a whole number, in fixed point
Sqrt(n) == CHOOSE r \in 0 .. Fix(n) : r * r <= n * Scale * Scale /\ (r + 1) * (r + 1) > n * Scale * Scale

-----------------------------------------------------------------------------
(* Inputs *)

\* values of np.random.normal(mean_demand, std_demand) the model draws
BaseDraws == {Fix(0 - 40), Fix(100)}

\* a period is left alone or multiplied by np.random.uniform(1.5, 2.0)
Spikes == {<<1, 1>>, <<3, 2>>}

\* positions of the sidebar widgets
LeadTimes == {MinLeadTime, MinLeadTime + 1}

Alphas == {<<2, 5>>, <<1, 2>>}

OrderMultipliers == {<<1, 1>>, <<3, 2>>}

SafetyStockMultipliers == {<<1, 1>>}

\* the configuration domain leadTime >= 0, of which the slider offers 2 and up
ConfigLeadTimes == 0 .. MinLeadTime

-----------------------------------------------------------------------------
VARIABLES
    pc,
    customer_demand,
    lead_time, alpha, order_multiplier, safety_stock_multiplier, info_sharing,
    fixed_safety_stock,
    orders, forecast, on_hand, stockouts,
    t, i,
    loc,
    demandRealized, received, credited,
    bullwhip, service_levels, bullwhip_green, service_green, success

vars == <<pc, customer_demand, lead_time, alpha, order_multiplier,
          safety_stock_multiplier, info_sharing, fixed_safety_stock,
          orders, forecast, on_hand, stockouts, t, i, loc,
          demandRealized, received, credited,
          bullwhip, service_levels, bullwhip_green, service_green, success>>

metrics == <<bullwhip, service_levels>>

dashboard == <<bullwhip_green, service_green, success>>

widgets == <<lead_time, alpha, order_multiplier, safety_stock_multiplier, info_sharing>>

Grid(v) == [s \in Stages |-> [p \in Periods |-> v]]

NoLocals == [demand |-> 0, arriving_order |-> 0, pre_clamp |-> 0,
             pipeline_inventory |-> 0, inventory_position |-> 0,
             target_base_stock |-> 0, gap |-> 0, raw_order |-> 0]

-----------------------------------------------------------------------------
(* The loop body, lines 66-105, as operators *)

\* a variant that reads the neighbour's order of the period before
RealizeDemandLagged(o, cd, tt, ii) == IF ii = 0 THEN cd[tt] ELSE o[ii - 1][tt - 1]

\* a variant that reads the order of the neighbour on the other side
RealizeDemandUpstream(o, cd, tt, ii) ==
    IF ii = 0 THEN cd[tt] ELSE IF ii + 1 < stages THEN o[ii + 1][tt] ELSE o[ii - 1][tt]

\* 1. Realize Demand
RealizeDemand(o, cd, tt, ii) == IF ii = 0 THEN cd[tt] ELSE o[ii - 1][tt]

\* a variant whose first delivery comes one period late
ReceiveShipmentLate(o, L, tt, ii) == IF tt > L THEN o[ii][tt - L] ELSE Fix(mean_demand)

\* 2. Receive Shipments (Lead Time Delay)
ReceiveShipment(o, L, tt, ii) == IF tt >= L THEN o[ii][tt - L] ELSE Fix(mean_demand)

\* 3. Update physical inventory
UpdateInventory(oh, arriving_order, demand, tt, ii) == oh[ii][tt - 1] + arriving_order - demand

\* a variant that records the stockout and keeps the negative inventory
CheckStockoutNoClamp(pre) == IF pre < 0 THEN <<1, pre>> ELSE <<0, pre>>

\* a variant that also counts an inventory of exactly 0 as a stockout
CheckStockoutAtZero(pre) == IF pre <= 0 THEN <<1, 0>> ELSE <<0, pre>>

\* 4. Check Stockouts (Lost Sales model): <<stockout flag, on hand>>
CheckStockout(pre) == IF pre < 0 THEN <<1, 0>> ELSE <<0, pre>>

\* a variant that never looks at the information-sharing checkbox
ForecastLocal(f, a, sharing, cd, demand, tt, ii) ==
    Times(a, demand) + Times(<<a[2] - a[1], a[2]>>, f[ii][tt - 1])

\* 5. Forecasting
Forecast(f, a, sharing, cd, demand, tt, ii) ==
    LET demand_for_forecast == IF sharing THEN cd[tt] ELSE demand
    IN  Times(a, demand_for_forecast) + Times(<<a[2] - a[1], a[2]>>, f[ii][tt - 1])

RECURSIVE SumRange(_, _, _)
\* np.sum(row[lo:hi])
SumRange(row, lo, hi) == IF lo >= hi THEN 0 ELSE row[lo] + SumRange(row, lo + 1, hi)

\* 6. Calculate Pipeline Inventory
PipelineInventory(o, L, tt, ii) == SumRange(o[ii], Max(0, tt - L), tt)

\* 7. target_base_stock
TargetBaseStock(fc, L, fss) == fc * (L + 1) + fss

\* 7. raw_order before the shortage gaming
RawGap(target, position) == Max(target - position, 0)

\* a variant that inflates every order, small ones too
ShortageGamingAlways(raw, m) == Times(m, raw)

\* a variant that divides by the multiplier
ShortageGamingDeflate(raw, m) == IF raw > Fix(mean_demand) THEN Times(<<m[2], m[1]>>, raw) ELSE raw

\* 7. shortage gaming
ShortageGaming(raw, m) == IF raw > Fix(mean_demand) THEN Times(m, raw) ELSE raw

\* one pass of the loop body for stage ii at period tt on the arrays st
StageStep(st, cfg, cd, tt, ii) ==
    LET demand == RealizeDemand(st.orders, cd, tt, ii)
        arriving_order == ReceiveShipment(st.orders, cfg.lead_time, tt, ii)
        pre == UpdateInventory(st.on_hand, arriving_order, demand, tt, ii)
        chk == CheckStockout(pre)
        oh == [st.on_hand EXCEPT ![ii][tt] = chk[2]]
        fc == Forecast(st.forecast, cfg.alpha, cfg.info_sharing, cd, demand, tt, ii)
        pipeline_inventory == PipelineInventory(st.orders, cfg.lead_time, tt, ii)
        inventory_position == oh[ii][tt] + pipeline_inventory
        target_base_stock == TargetBaseStock(fc, cfg.lead_time, cfg.fixed_safety_stock)
        gap == RawGap(target_base_stock, inventory_position)
        raw_order == ShortageGaming(gap, cfg.order_multiplier)
    IN  [orders |-> [st.orders EXCEPT ![ii][tt] = raw_order],
         forecast |-> [st.forecast EXCEPT ![ii][tt] = fc],
         on_hand |-> oh,
         stockouts |-> [st.stockouts EXCEPT ![ii][tt] = IF chk[1] = 1 THEN 1 ELSE @],
         loc |-> [demand |-> demand, arriving_order |-> arriving_order, pre_clamp |-> pre,
                  pipeline_inventory |-> pipeline_inventory,
                  inventory_position |-> inventory_position,
                  target_base_stock |-> target_base_stock, gap |-> gap,
                  raw_order |-> raw_order]]

RECURSIVE RunStages(_, _, _, _, _)
\* the inner loop of period tt, taking the stages in the given order
RunStages(st, cfg, cd, tt, order) ==
    IF order = <<>> THEN st
    ELSE RunStages(StageStep(st, cfg, cd, tt, Head(order)), cfg, cd, tt, Tail(order))

\* for i in range(stages)
Ascending == [k \in 1 .. stages |-> k - 1]

RECURSIVE RunPeriods(_, _, _, _)
\* the outer loop from period tt on
RunPeriods(st, cfg, cd, tt) ==
    IF tt >= T THEN st
    ELSE RunPeriods(RunStages(st, cfg, cd, tt, Ascending), cfg, cd, tt + 1)

arrays == [orders |-> orders, forecast |-> forecast, on_hand |-> on_hand, stockouts |-> stockouts]

config == [lead_time |-> lead_time, alpha |-> alpha, order_multiplier |-> order_multiplier,
           info_sharing |-> info_sharing, fixed_safety_stock |-> fixed_safety_stock]

-----------------------------------------------------------------------------
(* Natural numbers of any size, least significant limb first, for the exact *)
(* variances: the squares do not fit TLC's integers.                       *)

Limb == 10000

RECURSIVE BigOf(_)
BigOf(n) == IF n = 0 THEN <<>> ELSE <<n % Limb>> \o BigOf(n \div Limb)

RECURSIVE BigAddCarry(_, _, _)
BigAddCarry(a, b, c) ==
    IF a = <<>> /\ b = <<>>
    THEN BigOf(c)
    ELSE LET x == IF a = <<>> THEN 0 ELSE Head(a)
             y == IF b = <<>> THEN 0 ELSE Head(b)
             ra == IF a = <<>> THEN <<>> ELSE Tail(a)
             rb == IF b = <<>> THEN <<>> ELSE Tail(b)
         IN  <<(x + y + c) % Limb>> \o BigAddCarry(ra, rb, (x + y + c) \div Limb)

BigAdd(a, b) == BigAddCarry(a, b, 0)

RECURSIVE BigTimesLimb(_, _, _)
BigTimesLimb(a, k, c) ==
    IF k = 0 THEN <<>>
    ELSE IF a = <<>> THEN BigOf(c)
    ELSE <<(Head(a) * k + c) % Limb>> \o BigTimesLimb(Tail(a), k, (Head(a) * k + c) \div Limb)

RECURSIVE BigTimes(_, _)
BigTimes(a, b) ==
    IF a = <<>> \/ b = <<>> THEN <<>>
    ELSE LET rest == BigTimes(Tail(a), b)
         IN  BigAdd(BigTimesLimb(b, Head(a), 0), IF rest = <<>> THEN <<>> ELSE <<0>> \o rest)

RECURSIVE BigLeqFrom(_, _, _)
\* a <= b for two numbers of the same length, deciding from limb k downwards
BigLeqFrom(a, b, k) ==
    IF k = 0 THEN TRUE
    ELSE IF a[k] # b[k] THEN a[k] < b[k]
    ELSE BigLeqFrom(a, b, k - 1)

BigLeq(a, b) == IF Len(a) # Len(b) THEN Len(a) < Len(b) ELSE BigLeqFrom(a, b, Len(a))

Abs(n) == IF n < 0 THEN 0 - n ELSE n

-----------------------------------------------------------------------------
(* Metrics and dashboard, lines 109-134 *)

RECURSIVE SumSquaredDeviations(_, _, _, _)
\* sum over p in lo..hi-1 of (n * row[p] - total)^2
SumSquaredDeviations(row, lo, hi, total) ==
    IF lo >= hi THEN <<>>
    ELSE LET d == BigOf(Abs((hi - burn_in) * row[lo] - total))
         IN  BigAdd(BigTimes(d, d), SumSquaredDeviations(row, lo + 1, hi, total))

\* np.var(row[burn_in:]) times n^3 * Scale^2, n the length of the window:
\* the mean of the squared deviations from the mean, without the divisions
Var(row) == SumSquaredDeviations(row, burn_in, T, SumRange(row, burn_in, T))

\* a float64 quotient: a number num/den, or what numpy gives for x/0 and 0/0
Undefined == [kind |-> "nan", num |-> <<>>, den |-> <<>>]

Divide(num, den) ==
    IF den # <<>> THEN [kind |-> "num", num |-> num, den |-> den]
    ELSE IF num # <<>> THEN [kind |-> "inf", num |-> num, den |-> den]
    ELSE Undefined

Bullwhip(orderRow, cd) == Divide(Var(orderRow), Var(cd))

\* 1 - stockouts[i, burn_in:].mean() as <<periods without stockout, periods>>
ServiceLevel(row) == <<(T - burn_in) - SumRange(row, burn_in, T), T - burn_in>>

\* bullwhip[i] > TARGET
AboveTarget(r) ==
    CASE r.kind = "nan" -> FALSE
      [] r.kind = "inf" -> TRUE
      [] OTHER -> ~BigLeq(BigTimesLimb(r.num, TARGET_DEN, 0), BigTimesLimb(r.den, TARGET_NUM, 0))

\* r <= TARGET
WithinTarget(r) ==
    CASE r.kind = "nan" -> FALSE
      [] r.kind = "inf" -> FALSE
      [] OTHER -> BigLeq(BigTimesLimb(r.num, TARGET_DEN, 0), BigTimesLimb(r.den, TARGET_NUM, 0))

\* service_levels[i] < SERVICE_TARGET
BelowServiceTarget(s) == s[1] * 100 < SERVICE_TARGET_PCT * s[2]

Success(bw, sl) ==
    /\ \A s \in Stages : WithinTarget(bw[s])
    /\ \A s \in Stages : ~BelowServiceTarget(sl[s])

-----------------------------------------------------------------------------
(* The run *)

InitWith(leadTimes, multipliers) ==
    /\ pc = "generate"
    /\ customer_demand = [p \in Periods |-> 0]
    /\ lead_time \in leadTimes
    /\ alpha \in Alphas
    /\ order_multiplier \in multipliers
    /\ safety_stock_multiplier \in SafetyStockMultipliers
    /\ info_sharing \in BOOLEAN
    /\ fixed_safety_stock = 0
    /\ orders = Grid(0)
    /\ forecast = Grid(0)
    /\ on_hand = Grid(0)
    /\ stockouts = Grid(0)
    /\ t = 0
    /\ i = 0
    /\ loc = NoLocals
    /\ demandRealized = Grid(0)
    /\ received = Grid(0)
    /\ credited = {}
    /\ bullwhip = [s \in Stages |-> Undefined]
    /\ service_levels = [s \in Stages |-> <<0, 1>>]
    /\ bullwhip_green = [s \in Stages |-> FALSE]
    /\ service_green = [s \in Stages |-> FALSE]
    /\ success = FALSE

Init == InitWith(LeadTimes, OrderMultipliers)

\* generate_demand: T draws, the spikes, the floor at 0
GenerateDemand ==
    /\ pc = "generate"
    /\ \E base \in [Periods -> BaseDraws], spike \in [Periods -> Spikes] :
          customer_demand' = [p \in Periods |-> Max(Times(spike[p], base[p]), 0)]
    /\ pc' = "setup"
    /\ UNCHANGED <<widgets, fixed_safety_stock, orders, forecast, on_hand, stockouts,
                   t, i, loc, demandRealized, received, credited, metrics, dashboard>>

FixedSafetyStock(z, L) == Times(z, std_demand * Sqrt(L + 1))

\* the tracking arrays before the first period
SetupArrays(fss) ==
    [orders |-> Grid(0),
     forecast |-> Grid(Fix(mean_demand)),
     on_hand |-> [s \in Stages |->
                    [p \in Periods |-> IF p = 0
                                       THEN fss + Times(<<3, 2>>, Fix(mean_demand))
                                       ELSE 0]],
     stockouts |-> Grid(0)]

\* Simulation Setup: the tracking arrays, the safety stock, the starting inventory
Setup ==
    /\ pc = "setup"
    /\ fixed_safety_stock' = FixedSafetyStock(safety_stock_multiplier, lead_time)
    /\ orders' = SetupArrays(fixed_safety_stock').orders
    /\ forecast' = SetupArrays(fixed_safety_stock').forecast
    /\ on_hand' = SetupArrays(fixed_safety_stock').on_hand
    /\ stockouts' = SetupArrays(fixed_safety_stock').stockouts
    /\ t' = 1
    /\ i' = 0
    /\ pc' = IF 1 < T THEN "loop" ELSE "metrics"
    /\ UNCHANGED <<customer_demand, widgets, loc, demandRealized, received, credited,
                   metrics, dashboard>>

\* one iteration of the inner loop: stage i at period t (r is the one result
\* of the loop body), then the next stage, or the next period's stage 0
LoopBody ==
    /\ pc = "loop"
    /\ \E r \in {StageStep(arrays, config, customer_demand, t, i)} :
           /\ orders' = r.orders
           /\ forecast' = r.forecast
           /\ on_hand' = r.on_hand
           /\ stockouts' = r.stockouts
           /\ loc' = r.loc
           /\ demandRealized' = [demandRealized EXCEPT ![i][t] = r.loc.demand]
           /\ received' = [received EXCEPT ![i][t] = r.loc.arriving_order]
           /\ credited' = IF t >= lead_time THEN credited \cup {<<i, t - lead_time>>} ELSE credited
    /\ IF i + 1 < stages
       THEN /\ i' = i + 1
            /\ UNCHANGED <<t, pc>>
       ELSE /\ i' = 0
            /\ t' = t + 1
            /\ pc' = IF t + 1 < T THEN "loop" ELSE "metrics"
    /\ UNCHANGED <<customer_demand, widgets, fixed_safety_stock, metrics, dashboard>>

\* Metrics Calculation: bullwhip and service_levels over the periods after burn_in
Metrics ==
    /\ pc = "metrics"
    /\ bullwhip' = [s \in Stages |-> Bullwhip(orders[s], customer_demand)]
    /\ service_levels' = [s \in Stages |-> ServiceLevel(stockouts[s])]
    /\ pc' = "dashboard"
    /\ UNCHANGED <<customer_demand, widgets, fixed_safety_stock, orders, forecast, on_hand,
                   stockouts, t, i, loc, demandRealized, received, credited, dashboard>>

\* Dashboard UI: the colour of every stage's two figures, and the challenge status
Dashboard ==
    /\ pc = "dashboard"
    /\ bullwhip_green' = [s \in Stages |-> ~AboveTarget(bullwhip[s])]
    /\ service_green' = [s \in Stages |-> ~BelowServiceTarget(service_levels[s])]
    /\ success' = Success(bullwhip, service_levels)
    /\ pc' = "done"
    /\ UNCHANGED <<customer_demand, widgets, fixed_safety_stock, orders, forecast, on_hand,
                   stockouts, t, i, loc, demandRealized, received, credited, metrics>>

Next == GenerateDemand \/ Setup \/ LoopBody \/ Metrics \/ Dashboard

Spec == Init /\ [][Next]_vars

\* the same run over the configuration domain leadTime >= 0
InitConfig == InitWith(ConfigLeadTimes, OrderMultipliers)

SpecConfig == InitConfig /\ [][Next]_vars

\* the runs of Spec that have the shortage gaming switched on
InitGaming == InitWith(LeadTimes, OrderMultipliers \ {<<1, 1>>})

SpecGaming == InitGaming /\ [][Next]_vars

-----------------------------------------------------------------------------
(* Properties *)

\* stage s has run its loop body for period p
Processed(s, p) == p >= 1 /\ (p < t \/ (p = t /\ s < i))

\* the loop body has run at least once; LastStage at LastPeriod ran last
Stepped == t > 1 \/ i > 0

LastStage == IF i > 0 THEN i - 1 ELSE stages - 1

LastPeriod == IF i > 0 THEN t ELSE t - 1

\* C1, as claimed: the demand stage s > 0 realizes at period p is the order
\* stage s-1 placed at period p-1, and stage 0 realizes the customer demand.
C1_PropagationLag ==
    \A s \in Stages, p \in Periods :
        Processed(s, p) =>
            demandRealized[s][p] = IF s = 0 THEN customer_demand[p] ELSE orders[s - 1][p - 1]

\* C1, amended: the demand stage s > 0 realizes at period p is the order stage
\* s-1 placed at the same period p, and stage 0 realizes the customer demand.
C1_SamePeriodPropagation ==
    \A s \in Stages, p \in Periods :
        Processed(s, p) =>
            demandRealized[s][p] = IF s = 0 THEN customer_demand[p] ELSE orders[s - 1][p]

\* a stage has realized a demand that is not its neighbour's order of the period before
C1_Witness ==
    \E s \in Stages, p \in Periods :
        /\ Processed(s, p) /\ s > 0
        /\ demandRealized[s][p] > 0
        /\ orders[s - 1][p] # orders[s - 1][p - 1]

\* the shipments of a finished run under the claim of C3, for the lead times in leadTimes
ShipmentsAsOrdered(leadTimes) ==
    (pc = "done" /\ lead_time \in leadTimes) =>
        \A s \in Stages, p \in Periods :
            p >= 1 =>
                received[s][p] = IF p >= lead_time THEN orders[s][p - lead_time]
                                                  ELSE Fix(mean_demand)

C4_NonNegativity ==
    \A s \in Stages, p \in Periods : on_hand[s][p] >= 0 /\ orders[s][p] >= 0

\* an inventory was clamped and, in the step just done, a negative gap was floored
C4_Witness ==
    /\ Stepped
    /\ loc.target_base_stock < loc.inventory_position
    /\ orders[LastStage][LastPeriod] = 0
    /\ \E s \in Stages, p \in Periods : stockouts[s][p] = 1 /\ on_hand[s][p] = 0

\* C5: the stockout flag is set exactly when on-hand plus shipment minus demand
\* is negative, on-hand is that sum floored at 0, and the demand of a period
\* carries nothing over from a stockout before.
C5_StockoutCorrectness ==
    \A s \in Stages, p \in Periods :
        Processed(s, p) =>
            LET pre == on_hand[s][p - 1] + received[s][p] - demandRealized[s][p]
            IN  /\ stockouts[s][p] = 1 <=> pre < 0
                /\ stockouts[s][p] \in {0, 1}
                /\ on_hand[s][p] = Max(pre, 0)
                /\ demandRealized[s][p] = IF s = 0 THEN customer_demand[p] ELSE orders[s - 1][p]

\* a stage ran out of stock and has gone through the period after
C5_Witness ==
    \E s \in Stages, p \in Periods :
        /\ Processed(s, p) /\ p >= 2
        /\ stockouts[s][p - 1] = 1
        /\ on_hand[s][p - 1] + received[s][p] - demandRealized[s][p] > 0

\* the processing orders of the stages
StageOrders == {order \in [1 .. stages -> Stages] : \A j, k \in 1 .. stages : order[j] = order[k] => j = k}

\* what stage s holds for period p
Row(st, s, p) == <<st.orders[s][p], st.on_hand[s][p], st.forecast[s][p], st.stockouts[s][p]>>

\* in the given order the stages 0 .. s come in ascending order
AscendingUpTo(order, s) ==
    \A j, k \in 1 .. stages : (order[j] < order[k] /\ order[k] <= s) => j < k

\* C2, as claimed: at the start of every period, taking the stages in any
\* order gives every stage the orders, inventory, forecast and stockout flag
\* that the ascending order gives.
C2_StageOrderIndependence ==
    (pc = "loop" /\ i = 0) =>
        LET asc == RunStages(arrays, config, customer_demand, t, Ascending)
        IN  \A order \in StageOrders :
                LET got == RunStages(arrays, config, customer_demand, t, order)
                IN  \A s \in Stages : Row(got, s, t) = Row(asc, s, t)

\* C2, amended: stage s reads what stage s-1 writes in the same period, so a
\* processing order gives stage s what the ascending order gives it whenever
\* the stages 0 .. s are taken in ascending order, wherever the others come.
C2_DownstreamFirst ==
    (pc = "loop" /\ i = 0) =>
        LET asc == RunStages(arrays, config, customer_demand, t, Ascending)
        IN  \A order \in StageOrders :
                LET got == RunStages(arrays, config, customer_demand, t, order)
                IN  \A s \in Stages :
                        AscendingUpTo(order, s) => Row(got, s, t) = Row(asc, s, t)

\* a period in which another order of the stages keeps a stage's results
\* (its downstream stages first) and changes those of another stage
C2_Witness ==
    /\ pc = "loop" /\ i = 0
    /\ LET asc == RunStages(arrays, config, customer_demand, t, Ascending)
       IN  \E order \in StageOrders :
               LET got == RunStages(arrays, config, customer_demand, t, order)
               IN  /\ \E s \in Stages : s > 0 /\ AscendingUpTo(order, s) /\ got.orders[s][t] > 0
                   /\ \E s \in Stages : Row(got, s, t) # Row(asc, s, t)

\* C6, as claimed: when the customer demand is constant over the measured
\* window, every stage's bullwhip ratio is undefined, the run ends with the
\* challenge not met, and no stage's ratio is shown as meeting the target.
C6_DegenerateVariance ==
    (pc = "done" /\ Var(customer_demand) = <<>>) =>
        /\ \A s \in Stages : bullwhip[s].kind # "num"
        /\ ~success
        /\ \A s \in Stages : ~bullwhip_green[s]

\* a <= b for two rationals
RatLeq(a, b) == a[1] * b[2] <= b[1] * a[2]

\* the orders of the whole run under configuration cfg
Simulate(cfg, cd) == RunPeriods(SetupArrays(cfg.fixed_safety_stock), cfg, cd, 1).orders

\* C7, as claimed: on the same demand and with the other parameters equal, a
\* run under a larger shortage-gaming multiplier has, at every stage, a
\* post-burn-in order variance (hence a bullwhip ratio) at least as large.
C7_BullwhipMonotone ==
    pc = "done" =>
        \A m2 \in OrderMultipliers :
            RatLeq(order_multiplier, m2) =>
                LET other == Simulate([config EXCEPT !.order_multiplier = m2], customer_demand)
                IN  \A s \in Stages : BigLeq(Var(orders[s]), Var(other[s]))

\* C7, amended: from the same state at the start of a stage's step, the order
\* placed under a larger multiplier is at least as large; over a run the
\* order variance and the bullwhip ratio may go down as the multiplier goes up.
C7_StepMonotone ==
    pc = "loop" =>
        \A m2 \in OrderMultipliers :
            RatLeq(order_multiplier, m2) =>
                StageStep(arrays, [config EXCEPT !.order_multiplier = m2], customer_demand, t, i).orders[i][t]
                    >= StageStep(arrays, config, customer_demand, t, i).orders[i][t]

\* a step whose order is inflated, and more so under a larger multiplier
C7_Witness ==
    /\ pc = "loop"
    /\ \E m2 \in OrderMultipliers :
          /\ RatLeq(order_multiplier, m2)
          /\ StageStep(arrays, [config EXCEPT !.order_multiplier = m2], customer_demand, t, i).orders[i][t]
                > StageStep(arrays, config, customer_demand, t, i).orders[i][t]
          /\ StageStep(arrays, config, customer_demand, t, i).loc.gap > Fix(mean_demand)

\* forecast[i, t] = alpha * observation + (1 - alpha) * forecast[i, t-1]
Smoothed(observation, before) == Times(alpha, observation) + Times(<<alpha[2] - alpha[1], alpha[2]>>, before)

\* C8: with information sharing every stage's forecast is smoothed from the
\* customer demand alone, starting at mean_demand, so all stages hold the same
\* forecast; without it stage s smooths the demand it realized itself.
C8_InformationSharing ==
    pc \notin {"generate", "setup"} =>
        \A s \in Stages :
            /\ forecast[s][0] = Fix(mean_demand)
            /\ \A p \in Periods :
                  Processed(s, p) =>
                      /\ info_sharing =>
                            /\ forecast[s][p] = Smoothed(customer_demand[p], forecast[s][p - 1])
                            /\ forecast[s][p] = forecast[0][p]
                      /\ ~info_sharing =>
                            forecast[s][p] = Smoothed(demandRealized[s][p], forecast[s][p - 1])

\* with information sharing, a stage whose own demand was not the customer's
C8_Witness ==
    /\ info_sharing
    /\ \E s \in Stages, p \in Periods :
          /\ Processed(s, p) /\ s > 0
          /\ demandRealized[s][p] # customer_demand[p]
          /\ forecast[s][p] # Smoothed(demandRealized[s][p], forecast[s][p - 1])

RECURSIVE SumOutstanding(_, _, _)
\* the orders stage s placed at periods lo .. hi-1 and has not been credited
SumOutstanding(s, lo, hi) ==
    IF lo >= hi THEN 0
    ELSE (IF <<s, lo>> \in credited THEN 0 ELSE orders[s][lo]) + SumOutstanding(s, lo + 1, hi)

\* C9, as claimed: the pipeline inventory of a step is the sum of the orders
\* the stage placed before the period and has not received by then, and the
\* inventory position is the on-hand inventory plus that sum.
C9_PipelineOutstandingOnly ==
    Stepped =>
        /\ loc.pipeline_inventory = SumOutstanding(LastStage, 1, LastPeriod)
        /\ loc.inventory_position =
              on_hand[LastStage][LastPeriod] + SumOutstanding(LastStage, 1, LastPeriod)

\* C10: the order placed is the gap between target and inventory position,
\* floored at 0 and times the multiplier when above mean_demand, so position
\* plus order reaches the target.
C10_OrderGeneration ==
    Stepped =>
        LET s == LastStage
            p == LastPeriod
            target == forecast[s][p] * (lead_time + 1) + fixed_safety_stock
            position == on_hand[s][p] + loc.pipeline_inventory
            rawGap == Max(target - position, 0)
        IN  /\ orders[s][p] = IF rawGap > Fix(mean_demand)
                              THEN (order_multiplier[1] * rawGap) \div order_multiplier[2]
                              ELSE rawGap
            /\ position + orders[s][p] >= target

\* a step with a gap above mean_demand, inflated, and one before with a small gap
C10_Witness ==
    /\ Stepped
    /\ order_multiplier # <<1, 1>>
    /\ loc.gap > Fix(mean_demand)
    /\ orders[LastStage][LastPeriod] > loc.gap
    /\ \E s \in Stages, p \in Periods : Processed(s, p) /\ orders[s][p] > 0 /\ orders[s][p] <= Fix(mean_demand)

====
